---- MODULE Spec2Model ----
(***************************************************************************)
(* A model of src/app.py: the habitat-suitability (HSI) scoring engine of  *)
(* the shark tracker.                                                      *)
(*                                                                         *)
(* Numbers.  A Python/numpy float is modelled as a pair <<n, d>>:          *)
(*   d > 0   the rational n/d (kept in lowest terms),                      *)
(*   d = 0   a non-finite value: <<0,0>> is NaN, <<1,0>> is +inf and       *)
(*           <<-1,0>> is -inf.                                             *)
(* Comparisons follow IEEE-754 (every comparison with NaN is false).       *)
(* Physical quantities are integers in a fixed unit per variable:          *)
(*   SST   tenths of a degree C      (15 C      -> 150)                    *)
(*   CHL-A hundredths of mg/m^3      (0.2       -> 20)                     *)
(*   SSHa  hundredths of a metre     (0.05 m    -> 5)                      *)
(*   BATHY metres                    (200 m     -> 200)                    *)
(* Weights are integers in hundredths (0.35 -> 35).                        *)
(***************************************************************************)
EXTENDS Integers, Sequences, FiniteSets, TLC

VARIABLES
    SHARK_MODELS,         \* module-level species table (app.py:15-91)
    pc,                   \* position of the request handler calculate_hsi
    data,                 \* request.json of the request being served
    current_weights,      \* local of calculate_hsi
    current_preferences,  \* local of calculate_hsi
    paths,                \* (chla_path, sst_path, ssha_path) once resolved
    grid,                 \* lat_mesh / lon_mesh once built
    opened,               \* the dataset files opened for this request
    raw,                  \* chla_vals, sst_vals, ssha_vals, depth_vals
    depth_inv,            \* local of calculate_hsi
    ocean_mask,           \* local of calculate_hsi
    final_hsi,            \* local of calculate_hsi
    results,              \* local of calculate_hsi: the emitted records
    response,             \* what the handler returned
    n_prefs,              \* normalisation harness: the descriptor
    n_val,                \* normalisation harness: the input value
    n_out,                \* normalisation harness: the output value
    n_pc,                 \* normalisation harness: "ready" or "done"
    t_pc,                 \* per server thread: position of its calculate_hsi
    t_data,               \* per server thread: its request.json
    t_refs,               \* per server thread: the objects its locals name
    t_own,                \* per server thread: the dicts the thread created
    t_used,               \* per server thread: the weights and preferences scored with
    overridden            \* the species for which an override has been applied

hsiVars == <<SHARK_MODELS, pc, data, current_weights, current_preferences, paths,
             grid, opened, raw, depth_inv, ocean_mask, final_hsi, results, response>>
normVars == <<n_prefs, n_val, n_out, n_pc>>
threadVars == <<t_pc, t_data, t_refs, t_own, t_used, overridden>>
vars == <<SHARK_MODELS, pc, data, current_weights, current_preferences, paths,
          grid, opened, raw, depth_inv, ocean_mask, final_hsi, results, response,
          n_prefs, n_val, n_out, n_pc,
          t_pc, t_data, t_refs, t_own, t_used, overridden>>

\* The threads of the development server (app.run serves each request in a
\* thread of its own).
Threads == {"t1", "t2"}

\* No thread is serving a request.
ThreadsIdle ==
    /\ t_pc = [t \in Threads |-> "idle"]
    /\ t_data = [t \in Threads |-> <<>>]
    /\ t_refs = [t \in Threads |-> <<>>]
    /\ t_own = [t \in Threads |-> <<>>]
    /\ t_used = [t \in Threads |-> <<>>]
    /\ overridden = {}

(***************************************************************************)
(* Bounds of the model.                                                    *)
(***************************************************************************)
\* Generic descriptors and values of the normalisation harness range over
\* -MaxVal..MaxVal.
MaxVal == 2
\* Sub-steps per unit used to approach a band edge of a SHARK_MODELS descriptor.
Resolution == 8

(***************************************************************************)
(* Float arithmetic.                                                       *)
(***************************************************************************)
Abs(x) == IF x < 0 THEN -x ELSE x

RECURSIVE GCD(_, _)
GCD(a, b) == IF b = 0 THEN a ELSE GCD(b, a % b)

\* The float n/d, d # 0, in lowest terms with a positive denominator.
Frac(n, d) ==
    LET g == GCD(Abs(n), Abs(d))
        s == IF d < 0 THEN -1 ELSE 1
    IN  <<(s * n) \div g, (s * d) \div g>>

F(i) == <<i, 1>>
NaN == <<0, 0>>
PosInf == <<1, 0>>
NegInf == <<-1, 0>>
Zero == <<0, 1>>
One == <<1, 1>>

IsNaN(x) == x = NaN
IsFinite(x) == x[2] > 0

FNeg(x) == <<-x[1], x[2]>>

\* x < y, x <= y, x > y, x >= y as IEEE-754 compares them.
FLt(x, y) ==
    IF IsNaN(x) \/ IsNaN(y) THEN FALSE
    ELSE IF IsFinite(x) /\ IsFinite(y) THEN x[1] * y[2] < y[1] * x[2]
    ELSE IF IsFinite(x) THEN y = PosInf
    ELSE IF IsFinite(y) THEN x = NegInf
    ELSE x = NegInf /\ y = PosInf
FLe(x, y) == ~IsNaN(x) /\ ~IsNaN(y) /\ (x = y \/ FLt(x, y))
FGt(x, y) == FLt(y, x)
FGe(x, y) == FLe(y, x)

FAdd(x, y) ==
    IF IsNaN(x) \/ IsNaN(y) THEN NaN
    ELSE IF IsFinite(x) /\ IsFinite(y) THEN Frac(x[1] * y[2] + y[1] * x[2], x[2] * y[2])
    ELSE IF IsFinite(x) THEN y
    ELSE IF IsFinite(y) THEN x
    ELSE IF x = y THEN x ELSE NaN
FSub(x, y) == FAdd(x, FNeg(y))

FMul(x, y) ==
    IF IsNaN(x) \/ IsNaN(y) THEN NaN
    ELSE IF IsFinite(x) /\ IsFinite(y) THEN Frac(x[1] * y[1], x[2] * y[2])
    ELSE IF x[1] = 0 \/ y[1] = 0 THEN NaN
    ELSE IF (x[1] > 0) = (y[1] > 0) THEN PosInf ELSE NegInf

\* x / y for a finite, non-zero y (the code guards the zero divisor).
FDiv(x, y) ==
    IF IsNaN(x) \/ ~IsFinite(y) \/ y[1] = 0 THEN NaN
    ELSE IF IsFinite(x) THEN Frac(x[1] * y[2], x[2] * y[1])
    ELSE IF (x[1] > 0) = (y[1] > 0) THEN PosInf ELSE NegInf

\* np.clip(x, 0.0, 1.0) of one element: NaN stays NaN.
Clip01(x) ==
    IF IsNaN(x) THEN NaN
    ELSE IF FLt(x, Zero) THEN Zero
    ELSE IF FGt(x, One) THEN One
    ELSE x

(***************************************************************************)
(* vectorized_normalize_preference (app.py:158-193), for one element of    *)
(* the array; the caller maps it over the grid.                            *)
(***************************************************************************)
\* Faulty variant: the optimal band tested with strict comparisons.
mask_opt_strict(v, lo, hi) == FGt(v, F(lo)) /\ FLt(v, F(hi))
\* Faulty variant: the optimal band tested without its lower bound.
mask_opt_no_lower(v, lo, hi) == FLe(v, F(hi))
\* Faulty variant: the optimal band tested by negated comparisons, which NaN passes.
mask_opt_negated(v, lo, hi) == ~FLt(v, F(lo)) /\ ~FGt(v, F(hi))
\* (vals >= opt_min) & (vals <= opt_max)
mask_opt(v, lo, hi) == FGe(v, F(lo)) /\ FLe(v, F(hi))

\* (vals >= tol_min) & (vals < opt_min)
mask_left(v, tol_min, opt_min) == FGe(v, F(tol_min)) /\ FLt(v, F(opt_min))

\* (vals > opt_max) & (vals <= tol_max)
mask_right(v, opt_max, tol_max) == FGt(v, F(opt_max)) /\ FLe(v, F(tol_max))

\* (vals - tol_min) / (opt_min - tol_min)
left_ramp(v, tol_min, opt_min) == FDiv(FSub(v, F(tol_min)), F(opt_min - tol_min))

\* Faulty variant: the right ramp written like the left one, rising from opt_max.
right_ramp_rising(v, opt_max, tol_max) == FDiv(FSub(v, F(opt_max)), F(tol_max - opt_max))
\* (tol_max - vals) / (tol_max - opt_max)
right_ramp(v, opt_max, tol_max) == FDiv(FSub(F(tol_max), v), F(tol_max - opt_max))

\* Faulty variant: the bounds negated but not swapped.
mirror_no_swap(pair) == <<-pair[1], -pair[2]>>
\* opt_min_f, opt_max_f = -opt_max, -opt_min (and the same for the tolerance)
mirror(pair) == <<-pair[2], -pair[1]>>

\* The three masked assignments, in the order the code makes them, on the
\* (possibly mirrored) value and bounds.
ramps(v, opt, tol) ==
    LET out0 == Zero
        out1 == IF mask_opt(v, opt[1], opt[2]) THEN One ELSE out0
        out2 == IF (opt[1] - tol[1]) # 0 /\ mask_left(v, tol[1], opt[1])
                THEN left_ramp(v, tol[1], opt[1]) ELSE out1
        out3 == IF (tol[2] - opt[2]) # 0 /\ mask_right(v, opt[2], tol[2])
                THEN right_ramp(v, opt[2], tol[2]) ELSE out2
    IN  out3

vectorized_normalize_preference(v, prefs) ==
    IF prefs.is_low_temp_opt
    THEN Clip01(ramps(FNeg(v), mirror(prefs.optimal), mirror(prefs.tolerance)))
    ELSE Clip01(ramps(v, prefs.optimal, prefs.tolerance))

(***************************************************************************)
(* Configuration (app.py:11-147).                                          *)
(***************************************************************************)
Vars4 == {"SST", "CHL-A", "SSHa", "BATHY"}

\* One preference descriptor; prefs.get("is_low_temp_opt", False) reads an
\* absent key as FALSE, which is how the field is stored here.  The "units"
\* string is never read and is left out.
Pref(opt, tol) == [optimal |-> opt, tolerance |-> tol, is_low_temp_opt |-> FALSE]
PrefLow(opt, tol) == [optimal |-> opt, tolerance |-> tol, is_low_temp_opt |-> TRUE]

Weights(sst, chl, ssha, bathy) ==
    [k \in Vars4 |-> CASE k = "SST" -> sst [] k = "CHL-A" -> chl
                        [] k = "SSHa" -> ssha [] k = "BATHY" -> bathy]
Prefs(sst, chl, ssha, bathy) ==
    [k \in Vars4 |-> CASE k = "SST" -> sst [] k = "CHL-A" -> chl
                        [] k = "SSHa" -> ssha [] k = "BATHY" -> bathy]

SharkTypes == {"Great White Shark", "Tiger Shark", "Whale Shark", "Bull Shark",
               "Greenland Shark", "Reef Shark", "Shortfin Mako Shark", "shortfin_mako"}

\* The literal SHARK_MODELS of app.py:15-91.
SharkModelsTable ==
    [s \in SharkTypes |->
        CASE s = "Great White Shark" ->
               [weights |-> Weights(35, 10, 35, 20),
                preferences |-> Prefs(Pref(<<150, 220>>, <<100, 280>>),
                                      Pref(<<20, 200>>, <<10, 500>>),
                                      Pref(<<5, 20>>, <<-10, 30>>),
                                      Pref(<<20, 200>>, <<5, 1000>>))]
          [] s = "Tiger Shark" ->
               [weights |-> Weights(40, 10, 20, 30),
                preferences |-> Prefs(Pref(<<220, 280>>, <<200, 300>>),
                                      Pref(<<20, 200>>, <<10, 500>>),
                                      Pref(<<5, 20>>, <<-10, 30>>),
                                      Pref(<<5, 100>>, <<1, 500>>))]
          [] s = "Whale Shark" ->
               [weights |-> Weights(30, 40, 10, 20),
                preferences |-> Prefs(Pref(<<260, 300>>, <<210, 320>>),
                                      Pref(<<100, 500>>, <<50, 1000>>),
                                      Pref(<<5, 20>>, <<-10, 30>>),
                                      Pref(<<20, 500>>, <<5, 2000>>))]
          [] s = "Bull Shark" ->
               [weights |-> Weights(40, 20, 10, 30),
                preferences |-> Prefs(Pref(<<200, 280>>, <<180, 300>>),
                                      Pref(<<50, 300>>, <<10, 600>>),
                                      Pref(<<5, 20>>, <<-10, 30>>),
                                      Pref(<<1, 50>>, <<0, 200>>))]
          [] s = "Greenland Shark" ->
               [weights |-> Weights(20, 5, 5, 70),
                preferences |-> Prefs(PrefLow(<<-18, 50>>, <<-20, 100>>),
                                      Pref(<<10, 100>>, <<5, 300>>),
                                      Pref(<<0, 0>>, <<-10, 10>>),
                                      Pref(<<400, 1500>>, <<200, 3000>>))]
          [] s = "Reef Shark" ->
               [weights |-> Weights(40, 5, 5, 50),
                preferences |-> Prefs(Pref(<<240, 280>>, <<220, 300>>),
                                      Pref(<<10, 100>>, <<5, 200>>),
                                      Pref(<<5, 20>>, <<-10, 30>>),
                                      Pref(<<10, 60>>, <<5, 200>>))]
          [] s = "Shortfin Mako Shark" ->
               [weights |-> Weights(45, 5, 40, 10),
                preferences |-> Prefs(Pref(<<200, 280>>, <<180, 300>>),
                                      Pref(<<10, 50>>, <<5, 100>>),
                                      Pref(<<10, 30>>, <<0, 40>>),
                                      Pref(<<500, 5000>>, <<150, 5000>>))]
          [] s = "shortfin_mako" ->
               [weights |-> Weights(40, 10, 30, 20),
                preferences |-> Prefs(Pref(<<160, 250>>, <<120, 280>>),
                                      Pref(<<10, 80>>, <<5, 200>>),
                                      Pref(<<5, 20>>, <<-10, 30>>),
                                      Pref(<<100, 1000>>, <<50, 2000>>))]]

\* Dates are days of August 2025: TIME_START and TIME_END (app.py:94-95).
TIME_START == 8
TIME_END == 28

(***************************************************************************)
(* Harness for the pure function vectorized_normalize_preference: Init     *)
(* draws a descriptor and a value, Normalize applies the function.         *)
(***************************************************************************)
\* Every descriptor of SHARK_MODELS.
ModelDescriptors == {SharkModelsTable[s].preferences[k] : s \in SharkTypes, k \in Vars4}

\* The same descriptor in a unit r times finer (the function is invariant
\* under a change of unit, so this only adds values between the bounds).
ScalePref(p, r) ==
    [optimal |-> <<p.optimal[1] * r, p.optimal[2] * r>>,
     tolerance |-> <<p.tolerance[1] * r, p.tolerance[2] * r>>,
     is_low_temp_opt |-> p.is_low_temp_opt]

ScaledModelDescriptors == {ScalePref(p, Resolution) : p \in ModelDescriptors}

Edges(p) == {p.optimal[1], p.optimal[2], p.tolerance[1], p.tolerance[2]}

NonFinite == {NaN, PosInf, NegInf}

\* Descriptors with arbitrary small bounds, ordered or not, both orientations.
GenericDescriptors ==
    {[optimal |-> <<a, b>>, tolerance |-> <<c, d>>, is_low_temp_opt |-> r] :
        a \in -MaxVal..MaxVal, b \in -MaxVal..MaxVal,
        c \in -MaxVal..MaxVal, d \in -MaxVal..MaxVal, r \in BOOLEAN}

\* Whole and half values around the generic bounds, and the non-finite floats.
GenericValues == {Frac(i, 2) : i \in -(2 * MaxVal + 2)..(2 * MaxVal + 2)} \cup NonFinite

\* Values at and around the band edges of a scaled SHARK_MODELS descriptor.
EdgeValues(p) == {F(e + d) : e \in Edges(p), d \in -Resolution..Resolution} \cup NonFinite

InitNorm ==
    /\ SHARK_MODELS = SharkModelsTable
    /\ pc = "idle"
    /\ data = <<>>
    /\ current_weights = <<>>
    /\ current_preferences = <<>>
    /\ paths = <<>>
    /\ grid = <<>>
    /\ opened = {}
    /\ raw = <<>>
    /\ depth_inv = <<>>
    /\ ocean_mask = <<>>
    /\ final_hsi = <<>>
    /\ results = <<>>
    /\ response = <<>>
    /\ ThreadsIdle
    /\ n_pc = "ready"
    /\ n_out = NaN
    /\ \/ n_prefs \in GenericDescriptors /\ n_val \in GenericValues
       \/ n_prefs \in ScaledModelDescriptors /\ n_val \in EdgeValues(n_prefs)

Normalize ==
    /\ n_pc = "ready"
    /\ n_out' = vectorized_normalize_preference(n_val, n_prefs)
    /\ n_pc' = "done"
    /\ UNCHANGED <<n_prefs, n_val>>
    /\ UNCHANGED hsiVars
    /\ UNCHANGED threadVars

NextNorm == Normalize

SpecNorm == InitNorm /\ [][NextNorm]_vars

(***************************************************************************)
(* Claims about vectorized_normalize_preference, checked under SpecNorm.   *)
(***************************************************************************)
InOptimal(v, p) == FGe(v, F(p.optimal[1])) /\ FLe(v, F(p.optimal[2]))
OutsideTolerance(v, p) == FLt(v, F(p.tolerance[1])) \/ FGt(v, F(p.tolerance[2]))
Ordered(p) ==
    /\ p.tolerance[1] <= p.optimal[1]
    /\ p.optimal[1] <= p.optimal[2]
    /\ p.optimal[2] <= p.tolerance[2]

\* C2: for every descriptor, standard or reversed, a value within the optimal
\* band is normalised to exactly 1.0.
NormOptimalIsOne ==
    (n_pc = "done" /\ InOptimal(n_val, n_prefs)) => n_out = One

\* C2 witness: a reversed descriptor applied to the lower end of a proper
\* optimal band that lies strictly inside the tolerance band.
NormOptimalWitness ==
    /\ n_pc = "done"
    /\ n_prefs.is_low_temp_opt
    /\ n_prefs.tolerance[1] < n_prefs.optimal[1]
    /\ n_prefs.optimal[1] < n_prefs.optimal[2]
    /\ n_val = F(n_prefs.optimal[1])
    /\ n_out = One

\* C3: for every ordered descriptor, standard or reversed, a value below
\* tolerance.lo or above tolerance.hi is normalised to exactly 0.0.
NormOutsideIsZero ==
    (n_pc = "done" /\ Ordered(n_prefs) /\ OutsideTolerance(n_val, n_prefs))
        => n_out = Zero

\* C3 witness: a finite value below the tolerance band of an ordered reversed
\* descriptor with ramps on both sides.
NormOutsideWitness ==
    /\ n_pc = "done"
    /\ Ordered(n_prefs)
    /\ n_prefs.is_low_temp_opt
    /\ n_prefs.tolerance[1] < n_prefs.optimal[1]
    /\ n_prefs.optimal[2] < n_prefs.tolerance[2]
    /\ IsFinite(n_val)
    /\ FLt(n_val, F(n_prefs.tolerance[1]))
    /\ n_out = Zero

\* C5: the output is within [0,1] for every finite input and every descriptor,
\* and exactly 0 for NaN, +inf and -inf.
NormRangeAndMissing ==
    n_pc = "done" =>
        /\ IsFinite(n_val) => (FLe(Zero, n_out) /\ FLe(n_out, One))
        /\ ~IsFinite(n_val) => n_out = Zero

\* C5 witness: a NaN input scored 0 against a SHARK_MODELS descriptor.
NormMissingWitness ==
    /\ n_pc = "done"
    /\ n_val = NaN
    /\ n_prefs \in ScaledModelDescriptors
    /\ n_out = Zero

\* The tolerances 1/k against which a jump is measured.
EpsDenoms == {2, 4, Resolution}

\* |x - y| <= 1/k for finite x and y.
Within(x, y, k) ==
    LET diff == FSub(x, y)
    IN  IsFinite(diff) /\ Abs(diff[1]) * k <= diff[2]

Norm(i, p) == vectorized_normalize_preference(F(i), p)

\* No jump at e: for every tolerance 1/k there is a distance delta such that
\* every value within delta of e, on either side, scores within 1/k of e.
ContinuousAt(e, p) ==
    \A k \in EpsDenoms :
        \E delta \in 1..Resolution :
            \A d \in 1..delta :
                /\ Within(Norm(e + d, p), Norm(e, p), k)
                /\ Within(Norm(e - d, p), Norm(e, p), k)

AtEdge == n_pc = "done" /\ n_prefs \in ScaledModelDescriptors
              /\ \E e \in Edges(n_prefs) : n_val = F(e)

\* C4 as stated: the function is continuous at each of the four band edges of
\* every SHARK_MODELS descriptor, also where a tolerance bound equals the
\* matching optimal bound.
NormContinuousAtEveryEdge ==
    AtEdge => /\ n_out = Norm(n_val[1], n_prefs)
              /\ ContinuousAt(n_val[1], n_prefs)

\* The edge e is a tolerance bound that coincides with its optimal bound.
NoRampAt(e, p) ==
    \/ e = p.tolerance[1] /\ p.tolerance[1] = p.optimal[1]
    \/ e = p.tolerance[2] /\ p.tolerance[2] = p.optimal[2]

\* At an edge without a ramp the score steps from 1 (at the edge and inside the
\* band) to 0 (outside the band).
StepAt(e, p) ==
    /\ Norm(e, p) = One
    /\ \A d \in 1..Resolution :
          IF e = p.tolerance[2]
          THEN Norm(e + d, p) = Zero /\ Norm(e - d, p) = One
          ELSE Norm(e - d, p) = Zero /\ Norm(e + d, p) = One

\* C4 amended: the function is continuous at every band edge of every
\* SHARK_MODELS descriptor except where a tolerance bound equals the matching
\* optimal bound; there the score steps from 1 to 0.
NormContinuousWhereRamped ==
    AtEdge => /\ n_out = Norm(n_val[1], n_prefs)
              /\ IF NoRampAt(n_val[1], n_prefs)
                 THEN StepAt(n_val[1], n_prefs)
                 ELSE ContinuousAt(n_val[1], n_prefs)

\* C4 witness: the function applied at the lower optimal bound of the BATHY
\* descriptor of the Bull Shark, whose left ramp (one metre) is the steepest of
\* the table: one sub-step below the edge the score is 1 - 1/Resolution.
NormContinuousWitness ==
    /\ n_pc = "done"
    /\ n_prefs = ScalePref(SharkModelsTable["Bull Shark"].preferences["BATHY"], Resolution)
    /\ n_val = F(n_prefs.optimal[1])
    /\ n_out = One
    /\ Norm(n_val[1] - 1, n_prefs) = Frac(Resolution - 1, Resolution)

(***************************************************************************)
(* The request handler calculate_hsi (app.py:232-349).                     *)
(***************************************************************************)
None == <<>>
IsNone(x) == DOMAIN x = {}

DATA_DIR == "nasa"
BATHY_FILE == <<DATA_DIR, "GEBCO_2025_sub_ice.nc">>

\* A date string: its calendar day of August 2025 and how it is written.
\* "iso" is YYYY-MM-DD, the form of the FILE_MAP keys; "slash" is YYYY/MM/DD,
\* which pd.to_datetime parses to the same timestamp; "garbage" does not parse.
DateStr(form, day) == [form |-> form, day |-> day]

\* FILE_MAP (app.py:98-121): one entry per day from 2025-08-08 to 2025-08-28.
FILE_MAP ==
    [k \in {DateStr("iso", d) : d \in 8..28} |->
        IF k.day <= 14
        THEN <<"CHL.20250805_20250812", "SST.20250805_20250812", "SSH.20250808_20250814">>
        ELSE IF k.day <= 21
        THEN <<"CHL.20250813_20250820", "SST.20250813_20250820", "SSH.20250815_20250821">>
        ELSE <<"CHL.20250821_20250828", "SST.20250821_20250828", "SSH.20250822_20250828">>]

\* get_dataset_paths (app.py:219-227): whether it raises ValueError, and what
\* it returns otherwise.
get_dataset_paths_raises(date_str) == date_str \notin DOMAIN FILE_MAP
get_dataset_paths(date_str) ==
    <<<<DATA_DIR, FILE_MAP[date_str][1]>>,
      <<DATA_DIR, FILE_MAP[date_str][2]>>,
      <<DATA_DIR, FILE_MAP[date_str][3]>>>>

\* pd.to_datetime(target_date_str): raises on a string that is no date.
to_datetime_raises(date_str) == date_str.form = "garbage"
to_datetime(date_str) == date_str.day

\* Faulty variant: the range test with the upper bound left out.
date_in_range_no_upper(target_date) == TIME_START <= target_date
\* TIME_START <= target_date <= TIME_END
date_in_range(target_date) == TIME_START <= target_date /\ target_date <= TIME_END

RECURSIVE SumValues(_)
\* sum(user_weights.values())
SumValues(f) ==
    IF DOMAIN f = {} THEN 0
    ELSE LET k == CHOOSE x \in DOMAIN f : TRUE
         IN  f[k] + SumValues([x \in DOMAIN f \ {k} |-> f[x]])

\* Faulty variant: the sum compared with a tolerance of a tenth.
isclose_one_loose(total) == Abs(total - 100) <= 10
\* np.isclose(total_weight, 1.0), i.e. |total - 1| <= 1e-8 + 1e-5 * 1, on
\* weights held in hundredths (1e-8 is below the resolution).
isclose_one(total) == Abs(total - 100) * 100000 <= 100

\* dict.update
Update(d, u) ==
    [k \in DOMAIN d \cup DOMAIN u |-> IF k \in DOMAIN u THEN u[k] ELSE d[k]]

\* current_weights.get(k, 0) as a float
WeightOf(w, k) == IF k \in DOMAIN w THEN Frac(w[k], 100) ELSE Zero

\* The loop of app.py:263-268 for one variable of current_preferences.
override_pref(cur, user_prefs, var) ==
    IF var \notin DOMAIN user_prefs THEN cur
    ELSE LET new_prefs == user_prefs[var]
             c1 == IF "optimal" \in DOMAIN new_prefs
                   THEN [cur EXCEPT !.optimal = new_prefs["optimal"]] ELSE cur
             c2 == IF "tolerance" \in DOMAIN new_prefs
                   THEN [c1 EXCEPT !.tolerance = new_prefs["tolerance"]] ELSE c1
         IN  c2

\* vectorized_eddy_score (app.py:196-208) for one element; SSHa in hundredths
\* of a metre, so the dead zone (-0.05, 0.05) is (-5, 5).
vectorized_eddy_score(ssha, eddy_pref) ==
    LET pos_mask == FGt(ssha, F(5))
        neg_mask == FLt(ssha, F(-5))
        anti == eddy_pref.preferred = "anticyclonic"
        out0 == Frac(1, 2)
        out1 == IF pos_mask THEN (IF anti THEN One ELSE Zero) ELSE out0
        out2 == IF neg_mask THEN (IF anti THEN Zero ELSE One) ELSE out1
    IN  IF IsNaN(ssha) THEN Zero ELSE out2

\* season_score_scalar (app.py:211-216): (cos(2 pi (peak - month) / 12) + 1) / 2.
\* The cosine of a multiple of 30 degrees; the two irrational values are given
\* to three decimals.
season_score_scalar(month, season_pref) ==
    LET k == (season_pref.peak_month - month) % 12
    IN  CASE k = 0 -> One
          [] k \in {1, 11} -> Frac(933, 1000)
          [] k \in {2, 10} -> Frac(3, 4)
          [] k \in {3, 9} -> Frac(1, 2)
          [] k \in {4, 8} -> Frac(1, 4)
          [] k \in {5, 7} -> Frac(67, 1000)
          [] k = 6 -> Zero

\* Every date of the model lies in August.
MonthOf(target_date) == 8

\* np.linspace(a, b, n)[i], i from 1, for the n the model uses (n = 2 gives
\* the two end points).
linspace(a, b, n, i) == IF n = 1 THEN a ELSE a + ((i - 1) * (b - a)) \div (n - 1)

Cells(n) == (1..n) \X (1..n)

\* Faulty variant: the mask taken non-strictly, so that sea level counts as ocean.
is_ocean_non_strict(d) == FGe(d, Zero)
\* depth_inv > 0
is_ocean(d) == FGt(d, Zero)

(***************************************************************************)
(* The requests and the source rasters the model draws from.               *)
(***************************************************************************)
Num(v) == [num |-> TRUE, v |-> v]
\* A coordinate that float() rejects (or a missing key).
NotNum == [num |-> FALSE, v |-> 0]

Box(a, b, c, d) == [lat_min |-> a, lat_max |-> b, lon_min |-> c, lon_max |-> d]

\* A well-formed box, one with lat_min > lat_max, one with lon_min > lon_max,
\* and one whose lat_min is no number.
BBoxes == {Box(Num(10), Num(20), Num(-5), Num(5)),
           Box(Num(20), Num(10), Num(-5), Num(5)),
           Box(Num(10), Num(20), Num(5), Num(-5)),
           Box(NotNum, Num(20), Num(-5), Num(5))}

Dates == {DateStr("iso", 7), DateStr("iso", 8), DateStr("iso", 28), DateStr("iso", 29),
          DateStr("slash", 10), DateStr("garbage", 0)}

\* The request carries no "shark_type" key.
Absent == "<absent>"
RequestSharkTypes == {"Great White Shark", "Greenland Shark", "Shortfin Mako Shark",
                      "Hammerhead", Absent}

Map1(k, v) == [x \in {k} |-> v]
Map2(k1, v1, k2, v2) == [x \in {k1, k2} |-> IF x = k1 THEN v1 ELSE v2]

\* No override; a partial override summing to 1.0; the spec's 0.6 + 0.5; an
\* override summing to 1.0 with a negative share; a full override; an override
\* of the two auxiliary layers.
UserWeights == {<<>>,
                Map1("SST", 100),
                Map2("SST", 60, "CHL-A", 50),
                Map2("SST", 200, "CHL-A", -100),
                Weights(25, 25, 25, 25),
                Map2("EDDY", 50, "SEASON", 50)}

UserPreferences == {<<>>,
                    Map1("SST", Map1("optimal", <<160, 200>>)),
                    Map2("BATHY", Map2("optimal", <<50, 6000>>, "tolerance", <<0, 6000>>),
                         "SAL", Map1("optimal", <<30, 35>>))}

NPoints == {2}

Requests ==
    {[lat_min |-> b.lat_min, lat_max |-> b.lat_max,
      lon_min |-> b.lon_min, lon_max |-> b.lon_max,
      date |-> d, shark_type |-> s, weights |-> w, preferences |-> p, n_points |-> n] :
        b \in BBoxes, d \in Dates, s \in RequestSharkTypes,
        w \in UserWeights, p \in UserPreferences, n \in NPoints}

\* A source raster: its value at the four nodes (10,-5), (10,5), (20,-5), (20,5).
\* Interpolation at a node returns the node's value; NaN marks a node the
\* source does not cover.
Field(a, b, c, d) ==
    [pt \in {10, 20} \X {-5, 5} |->
        CASE pt = <<10, -5>> -> a [] pt = <<10, 5>> -> b
          [] pt = <<20, -5>> -> c [] pt = <<20, 5>> -> d]

SstFields == {Field(F(180), F(90), F(125), NaN), Field(F(30), F(250), F(300), F(-19))}
ChlaFields == {Field(F(100), F(100), NaN, F(15)), Field(F(30), F(7), F(550), F(100))}
SshaFields == {Field(F(10), F(10), F(-20), F(3))}
\* Elevation (negative below sea level): ocean, land, sea level and a gap;
\* and an all-ocean raster.
BathyFields == {Field(F(-100), F(50), F(0), NaN), Field(F(-100), F(-600), F(-5000), F(-5001))}

(***************************************************************************)
(* calculate_hsi, one action per step of the handler.  pc = "done" is the  *)
(* state in which the handler has returned `response`.                     *)
(***************************************************************************)
Init ==
    /\ SHARK_MODELS = SharkModelsTable
    /\ pc = "idle"
    /\ data = None
    /\ current_weights = None
    /\ current_preferences = None
    /\ paths = None
    /\ grid = None
    /\ opened = {}
    /\ raw = None
    /\ depth_inv = None
    /\ ocean_mask = None
    /\ final_hsi = None
    /\ results = None
    /\ response = None
    /\ n_prefs = None
    /\ n_val = NaN
    /\ n_out = NaN
    /\ n_pc = "off"
    /\ ThreadsIdle

\* return jsonify({"error": msg}), 400
Rejected(msg) == [status |-> 400, error |-> msg]
\* except Exception as e: return jsonify({"error": str(e)}), 500
Failed(msg) == [status |-> 500, error |-> msg]

\* data = request.json (app.py:235)
Receive ==
    /\ pc = "idle"
    /\ data' \in Requests
    /\ pc' = "parse"
    /\ UNCHANGED <<SHARK_MODELS, current_weights, current_preferences, paths, grid,
                   opened, raw, depth_inv, ocean_mask, final_hsi, results, response>>
    /\ UNCHANGED normVars
    /\ UNCHANGED threadVars

\* float(data["lat_min"]) ... float(data["lon_max"]) (app.py:237-238)
ParseBBox ==
    /\ pc = "parse"
    /\ IF data.lat_min.num /\ data.lat_max.num /\ data.lon_min.num /\ data.lon_max.num
       THEN pc' = "species" /\ UNCHANGED response
       ELSE pc' = "done" /\ response' = Failed("could not convert string to float")
    /\ UNCHANGED <<SHARK_MODELS, data, current_weights, current_preferences, paths, grid,
                   opened, raw, depth_inv, ocean_mask, final_hsi, results>>
    /\ UNCHANGED normVars
    /\ UNCHANGED threadVars

\* data.get("shark_type", "Great White Shark")
shark_type_of(d) == IF d.shark_type = Absent THEN "Great White Shark" ELSE d.shark_type

\* The species lookup and the copies of its weights and preferences
\* (app.py:241-250).
CheckSharkType ==
    /\ pc = "species"
    /\ LET shark_type == shark_type_of(data)
       IN  IF shark_type \notin DOMAIN SHARK_MODELS
           THEN /\ pc' = "done"
                /\ response' = Rejected("Unknown shark type")
                /\ UNCHANGED <<current_weights, current_preferences>>
           ELSE /\ current_weights' = SHARK_MODELS[shark_type].weights
                /\ current_preferences' = SHARK_MODELS[shark_type].preferences
                /\ pc' = "weights"
                /\ UNCHANGED response
    /\ UNCHANGED <<SHARK_MODELS, data, paths, grid,
                   opened, raw, depth_inv, ocean_mask, final_hsi, results>>
    /\ UNCHANGED normVars
    /\ UNCHANGED threadVars

\* current_weights.update(user_weights) (app.py:258)
merge_weights(cur, user_weights) == Update(cur, user_weights)

\* if user_weights: ... if not np.isclose(total_weight, 1.0) (app.py:254-256)
weights_rejected(user_weights) ==
    DOMAIN user_weights # {} /\ ~isclose_one(SumValues(user_weights))

\* The weight override (app.py:253-258).
OverrideWeights ==
    /\ pc = "weights"
    /\ LET user_weights == data.weights
       IN  IF weights_rejected(user_weights)
           THEN /\ pc' = "done"
                /\ response' = Rejected("Weights must sum to 1.0")
                /\ UNCHANGED current_weights
           ELSE /\ current_weights' = IF DOMAIN user_weights # {}
                                      THEN merge_weights(current_weights, user_weights)
                                      ELSE current_weights
                /\ pc' = "prefs"
                /\ UNCHANGED response
    /\ UNCHANGED <<SHARK_MODELS, data, current_preferences, paths, grid,
                   opened, raw, depth_inv, ocean_mask, final_hsi, results>>
    /\ UNCHANGED normVars
    /\ UNCHANGED threadVars

\* The preference override (app.py:262-268).
OverridePreferences ==
    /\ pc = "prefs"
    /\ current_preferences' =
           [var \in DOMAIN current_preferences |->
               override_pref(current_preferences[var], data.preferences, var)]
    /\ pc' = "date"
    /\ UNCHANGED <<SHARK_MODELS, data, current_weights, paths, grid,
                   opened, raw, depth_inv, ocean_mask, final_hsi, results, response>>
    /\ UNCHANGED normVars
    /\ UNCHANGED threadVars

\* The date check (app.py:272-274).
CheckDate ==
    /\ pc = "date"
    /\ IF to_datetime_raises(data.date)
       THEN pc' = "done" /\ response' = Failed("Unknown datetime string format")
       ELSE IF ~date_in_range(to_datetime(data.date))
       THEN pc' = "done" /\ response' = Rejected("Date out of range")
       ELSE pc' = "resolve" /\ UNCHANGED response
    /\ UNCHANGED <<SHARK_MODELS, data, current_weights, current_preferences, paths, grid,
                   opened, raw, depth_inv, ocean_mask, final_hsi, results>>
    /\ UNCHANGED normVars
    /\ UNCHANGED threadVars

\* chla_path, sst_path, ssha_path = get_dataset_paths(target_date_str)
\* (app.py:276); its ValueError reaches the handler's except clause.
ResolvePaths ==
    /\ pc = "resolve"
    /\ IF get_dataset_paths_raises(data.date)
       THEN /\ pc' = "done"
            /\ response' = Failed("No mapped files for date")
            /\ UNCHANGED paths
       ELSE /\ paths' = get_dataset_paths(data.date)
            /\ pc' = "grid"
            /\ UNCHANGED response
    /\ UNCHANGED <<SHARK_MODELS, data, current_weights, current_preferences, grid,
                   opened, raw, depth_inv, ocean_mask, final_hsi, results>>
    /\ UNCHANGED normVars
    /\ UNCHANGED threadVars

\* The target grid (app.py:278-281): np.meshgrid(lons, lats) gives
\* lat_mesh[i][j] = lats[i] and lon_mesh[i][j] = lons[j].
BuildGrid ==
    /\ pc = "grid"
    /\ LET N_POINTS == data.n_points
           lats == [i \in 1..N_POINTS |->
                       linspace(data.lat_min.v, data.lat_max.v, N_POINTS, i)]
           lons == [j \in 1..N_POINTS |->
                       linspace(data.lon_min.v, data.lon_max.v, N_POINTS, j)]
       IN  grid' = [n |-> N_POINTS,
                    lat_mesh |-> [c \in Cells(N_POINTS) |-> lats[c[1]]],
                    lon_mesh |-> [c \in Cells(N_POINTS) |-> lons[c[2]]]]
    /\ pc' = "extract"
    /\ UNCHANGED <<SHARK_MODELS, data, current_weights, current_preferences, paths,
                   opened, raw, depth_inv, ocean_mask, final_hsi, results, response>>
    /\ UNCHANGED normVars
    /\ UNCHANGED threadVars

\* The four datasets opened and interpolated on the grid (app.py:284-302).
ExtractData ==
    /\ pc = "extract"
    /\ opened' = {paths[1], paths[2], paths[3], BATHY_FILE}
    /\ \E chla \in ChlaFields, sst \in SstFields, ssha \in SshaFields, bathy \in BathyFields :
          LET at(f) == [c \in Cells(grid.n) |-> f[<<grid.lat_mesh[c], grid.lon_mesh[c]>>]]
          IN  raw' = [chla_vals |-> at(chla), sst_vals |-> at(sst),
                      ssha_vals |-> at(ssha), depth_vals |-> at(bathy)]
    /\ pc' = "score"
    /\ UNCHANGED <<SHARK_MODELS, data, current_weights, current_preferences, paths, grid,
                   depth_inv, ocean_mask, final_hsi, results, response>>
    /\ UNCHANGED normVars
    /\ UNCHANGED threadVars

\* xr.open_dataset raises on the first file (it is missing or unreadable).
ExtractDataFails ==
    /\ pc = "extract"
    /\ opened' = {paths[1]}
    /\ pc' = "done"
    /\ response' = Failed("No such file or directory")
    /\ UNCHANGED <<SHARK_MODELS, data, current_weights, current_preferences, paths, grid,
                   raw, depth_inv, ocean_mask, final_hsi, results>>
    /\ UNCHANGED normVars
    /\ UNCHANGED threadVars

\* The weighted sum of app.py:319-326 for one cell.
fuse(w, sst_norm, chla_norm, ssha_norm, depth_norm, eddy_norm, season_norm) ==
    FAdd(FAdd(FAdd(FAdd(FAdd(FMul(WeightOf(w, "SST"), sst_norm),
                             FMul(WeightOf(w, "CHL-A"), chla_norm)),
                        FMul(WeightOf(w, "SSHa"), ssha_norm)),
                   FMul(WeightOf(w, "BATHY"), depth_norm)),
              FMul(WeightOf(w, "EDDY"), eddy_norm)),
         FMul(WeightOf(w, "SEASON"), season_norm))

\* Depth inversion, ocean mask, normalisation and fusion (app.py:304-326).
Score ==
    /\ pc = "score"
    /\ LET cells == Cells(grid.n)
           inv == [c \in cells |-> FNeg(raw.depth_vals[c])]
           target_date == to_datetime(data.date)
           season_scalar == season_score_scalar(MonthOf(target_date),
                                                [peak_month |-> MonthOf(target_date)])
       IN  /\ depth_inv' = inv
           /\ ocean_mask' = [c \in cells |-> is_ocean(inv[c])]
           /\ final_hsi' =
                [c \in cells |->
                    fuse(current_weights,
                         vectorized_normalize_preference(raw.sst_vals[c],
                                                         current_preferences["SST"]),
                         vectorized_normalize_preference(raw.chla_vals[c],
                                                         current_preferences["CHL-A"]),
                         vectorized_normalize_preference(raw.ssha_vals[c],
                                                         current_preferences["SSHa"]),
                         vectorized_normalize_preference(inv[c],
                                                         current_preferences["BATHY"]),
                         vectorized_eddy_score(raw.ssha_vals[c],
                                               [preferred |-> "anticyclonic"]),
                         season_scalar)]
    /\ pc' = "mask"
    /\ UNCHANGED <<SHARK_MODELS, data, current_weights, current_preferences, paths, grid,
                   opened, raw, results, response>>
    /\ UNCHANGED normVars
    /\ UNCHANGED threadVars

\* final_hsi[~ocean_mask] = np.nan (app.py:328-331)
MaskLand ==
    /\ pc = "mask"
    /\ final_hsi' = [c \in DOMAIN final_hsi |->
                        IF ~ocean_mask[c] THEN NaN ELSE final_hsi[c]]
    /\ pc' = "emit"
    /\ UNCHANGED <<SHARK_MODELS, data, current_weights, current_preferences, paths, grid,
                   opened, raw, depth_inv, ocean_mask, results, response>>
    /\ UNCHANGED normVars
    /\ UNCHANGED threadVars

\* The k-th cell of the row-major double loop of app.py:336-337.
RowMajor(n, k) == <<((k - 1) \div n) + 1, ((k - 1) % n) + 1>>

\* The emission loop and the reply (app.py:335-345).  Each record also carries
\* the cell [i, j] it was made from, which the JSON does not.
Emit ==
    /\ pc = "emit"
    /\ LET n == grid.n
           recs == [k \in 1..(n * n) |->
                       [cell |-> RowMajor(n, k),
                        lat |-> grid.lat_mesh[RowMajor(n, k)],
                        lon |-> grid.lon_mesh[RowMajor(n, k)],
                        hsi |-> final_hsi[RowMajor(n, k)]]]
           keep(r) == ~IsNaN(r.hsi)
       IN  /\ results' = SelectSeq(recs, keep)
           /\ response' = [status |-> 200, data |-> results', count |-> Len(results')]
    /\ pc' = "done"
    /\ UNCHANGED <<SHARK_MODELS, data, current_weights, current_preferences, paths, grid,
                   opened, raw, depth_inv, ocean_mask, final_hsi>>
    /\ UNCHANGED normVars
    /\ UNCHANGED threadVars

\* The handler has returned; its locals are gone and the next request may come.
Return ==
    /\ pc = "done"
    /\ pc' = "idle"
    /\ data' = None
    /\ current_weights' = None
    /\ current_preferences' = None
    /\ paths' = None
    /\ grid' = None
    /\ opened' = {}
    /\ raw' = None
    /\ depth_inv' = None
    /\ ocean_mask' = None
    /\ final_hsi' = None
    /\ results' = None
    /\ response' = None
    /\ UNCHANGED SHARK_MODELS
    /\ UNCHANGED normVars
    /\ UNCHANGED threadVars

Next ==
    \/ Receive
    \/ ParseBBox
    \/ CheckSharkType
    \/ OverrideWeights
    \/ OverridePreferences
    \/ CheckDate
    \/ ResolvePaths
    \/ BuildGrid
    \/ ExtractData
    \/ ExtractDataFails
    \/ Score
    \/ MaskLand
    \/ Emit
    \/ Return

Spec == Init /\ [][Next]_vars

(***************************************************************************)
(* Claims about calculate_hsi, checked under Spec.                         *)
(***************************************************************************)
Served == pc = "done"
Accepted == pc = "done" /\ response.status = 200

\* What a request is, read off its fields alone.
BBoxParses(d) == d.lat_min.num /\ d.lat_max.num /\ d.lon_min.num /\ d.lon_max.num
SpeciesKnown(d) == d.shark_type = Absent \/ d.shark_type \in SharkTypes
WeightsGiven(d) == DOMAIN d.weights # {}
WeightsSumToOne(d) == SumValues(d.weights) = 100
DateParses(d) == d.date.form # "garbage"
DateInRange(d) == DateParses(d) /\ d.date.day >= TIME_START /\ d.date.day <= TIME_END
DateOutOfRange(d) == DateParses(d) /\ ~(d.date.day >= TIME_START /\ d.date.day <= TIME_END)
DateMapped(d) == d.date.form = "iso" /\ d.date.day \in 8..28
BBoxMalformed(d) ==
    BBoxParses(d) /\ (d.lat_min.v > d.lat_max.v \/ d.lon_min.v > d.lon_max.v)

NoDatasetAccess == IsNone(paths) /\ opened = {}
NoScoring == IsNone(raw) /\ IsNone(depth_inv) /\ IsNone(final_hsi) /\ IsNone(results)

\* C1: every record emitted for an accepted request has its hsi in [0,1].
HsiInUnitInterval ==
    Accepted => \A k \in 1..Len(results) :
                    FLe(Zero, results[k].hsi) /\ FLe(results[k].hsi, One)

LandNeverEmitted ==
    Accepted =>
        \A c \in DOMAIN depth_inv :
            ~FGt(depth_inv[c], Zero) =>
                \A k \in 1..Len(results) : results[k].cell # c

\* C7 witness: an accepted request over a grid with a land cell, a cell at sea
\* level and a cell without bathymetry, one of them with optimal chlorophyll,
\* and a single ocean cell, which is the one record emitted.
LandNeverEmittedWitness ==
    /\ Accepted
    /\ \E c \in DOMAIN depth_inv : FLt(depth_inv[c], Zero)
    /\ \E c \in DOMAIN depth_inv : depth_inv[c] = Zero
    /\ \E c \in DOMAIN depth_inv : IsNaN(depth_inv[c])
    /\ Len(results) = 1
    /\ FGt(results[1].hsi, Zero)
    /\ \E c \in DOMAIN depth_inv :
          /\ ~FGt(depth_inv[c], Zero)
          /\ vectorized_normalize_preference(raw.chla_vals[c],
                                             current_preferences["CHL-A"]) = One

UnmappedDateIsValidationError ==
    (/\ Served
     /\ BBoxParses(data) /\ SpeciesKnown(data)
     /\ (WeightsGiven(data) => WeightsSumToOne(data))
     /\ DateInRange(data) /\ ~DateMapped(data))
        => response.status = 400

\* C10: a request with lat_min > lat_max or lon_min > lon_max is rejected with
\* an error message of its own, and no grid is built or scored for it.
MalformedBBoxRejected ==
    (pc # "idle" /\ BBoxMalformed(data)) =>
        /\ IsNone(grid)
        /\ NoScoring
        /\ Served =>
              /\ response.status = 400
              /\ response.error \notin {"Unknown shark type", "Weights must sum to 1.0",
                                        "Date out of range"}


(***************************************************************************)
(* calculate_hsi served by several threads at once.  A Python name holds a *)
(* reference: a local either names the dict held by SHARK_MODELS           *)
(* ("template") or a dict the thread created ("own"), and an assignment    *)
(* through the name changes the dict it names.  The steps after the        *)
(* overrides (app.py:272-345) read only the thread's locals and are        *)
(* gathered into one.                                                      *)
(***************************************************************************)
\* Faulty variant: the local bound to the dict itself, without .copy().
dict_copy_alias(ref) == ref
\* d.copy(): a new dict, whichever dict d names (app.py:247, 249).
dict_copy(ref) == "own"

\* Requests that reach the species lookup, over two known species and an
\* unknown one.
ThreadRequests ==
    {r \in Requests :
        /\ r.lat_min = Num(10) /\ r.lat_max = Num(20)
        /\ r.lon_min = Num(-5) /\ r.lon_max = Num(5)
        /\ r.date = DateStr("iso", 8)
        /\ r.shark_type \in {"Great White Shark", "Greenland Shark", "Hammerhead"}
        /\ r.weights \in {<<>>, Map1("SST", 100), Map2("SST", 60, "CHL-A", 50),
                          Map2("EDDY", 50, "SEASON", 50)}}

\* The dict a thread's current_weights names, and the dicts its
\* current_preferences holds.
weights_of(t) ==
    IF t_refs[t].weights = "template"
    THEN SHARK_MODELS[shark_type_of(t_data[t])].weights
    ELSE t_own[t].weights
preferences_of(t) ==
    IF t_refs[t].preferences = "template"
    THEN SHARK_MODELS[shark_type_of(t_data[t])].preferences
    ELSE t_own[t].preferences

T_Receive(t) ==
    /\ t_pc[t] = "idle"
    /\ \E d \in ThreadRequests : t_data' = [t_data EXCEPT ![t] = d]
    /\ t_pc' = [t_pc EXCEPT ![t] = "species"]
    /\ UNCHANGED <<t_refs, t_own, t_used, overridden>>
    /\ UNCHANGED hsiVars
    /\ UNCHANGED normVars

\* app.py:241-250
T_CheckSharkType(t) ==
    /\ t_pc[t] = "species"
    /\ LET shark_type == shark_type_of(t_data[t])
       IN  IF shark_type \notin DOMAIN SHARK_MODELS
           THEN /\ t_pc' = [t_pc EXCEPT ![t] = "done"]
                /\ UNCHANGED <<t_refs, t_own>>
           ELSE /\ t_refs' = [t_refs EXCEPT ![t] =
                                 [weights |-> dict_copy("template"),
                                  preferences |-> dict_copy("template")]]
                /\ t_own' = [t_own EXCEPT ![t] =
                                [weights |-> SHARK_MODELS[shark_type].weights,
                                 preferences |-> SHARK_MODELS[shark_type].preferences]]
                /\ t_pc' = [t_pc EXCEPT ![t] = "weights"]
    /\ UNCHANGED <<t_data, t_used, overridden>>
    /\ UNCHANGED hsiVars
    /\ UNCHANGED normVars

\* app.py:253-258: current_weights.update changes the dict current_weights
\* names.
T_OverrideWeights(t) ==
    /\ t_pc[t] = "weights"
    /\ LET user_weights == t_data[t].weights
           shark_type == shark_type_of(t_data[t])
           merged == merge_weights(weights_of(t), user_weights)
       IN  IF weights_rejected(user_weights)
           THEN /\ t_pc' = [t_pc EXCEPT ![t] = "done"]
                /\ UNCHANGED <<SHARK_MODELS, t_own, overridden>>
           ELSE IF DOMAIN user_weights = {}
           THEN /\ t_pc' = [t_pc EXCEPT ![t] = "prefs"]
                /\ UNCHANGED <<SHARK_MODELS, t_own, overridden>>
           ELSE /\ t_pc' = [t_pc EXCEPT ![t] = "prefs"]
                /\ overridden' = overridden \cup {shark_type}
                /\ IF t_refs[t].weights = "template"
                   THEN /\ SHARK_MODELS' = [SHARK_MODELS EXCEPT ![shark_type].weights = merged]
                        /\ UNCHANGED t_own
                   ELSE /\ t_own' = [t_own EXCEPT ![t].weights = merged]
                        /\ UNCHANGED SHARK_MODELS
    /\ UNCHANGED <<t_data, t_refs, t_used>>
    /\ UNCHANGED <<pc, data, current_weights, current_preferences, paths, grid, opened,
                   raw, depth_inv, ocean_mask, final_hsi, results, response>>
    /\ UNCHANGED normVars

\* app.py:262-268: current_preferences[var]["optimal"] = ... changes the
\* descriptor dict current_preferences[var] names.
T_OverridePreferences(t) ==
    /\ t_pc[t] = "prefs"
    /\ LET user_prefs == t_data[t].preferences
           shark_type == shark_type_of(t_data[t])
           cur == preferences_of(t)
           new == [var \in DOMAIN cur |-> override_pref(cur[var], user_prefs, var)]
       IN  IF DOMAIN user_prefs \cap DOMAIN cur = {}
           THEN UNCHANGED <<SHARK_MODELS, t_own, overridden>>
           ELSE /\ overridden' = overridden \cup {shark_type}
                /\ IF t_refs[t].preferences = "template"
                   THEN /\ SHARK_MODELS' = [SHARK_MODELS EXCEPT ![shark_type].preferences = new]
                        /\ UNCHANGED t_own
                   ELSE /\ t_own' = [t_own EXCEPT ![t].preferences = new]
                        /\ UNCHANGED SHARK_MODELS
    /\ t_pc' = [t_pc EXCEPT ![t] = "score"]
    /\ UNCHANGED <<t_data, t_refs, t_used>>
    /\ UNCHANGED <<pc, data, current_weights, current_preferences, paths, grid, opened,
                   raw, depth_inv, ocean_mask, final_hsi, results, response>>
    /\ UNCHANGED normVars

\* app.py:272-345: the request is scored with the weights and preferences its
\* locals name.
T_Score(t) ==
    /\ t_pc[t] = "score"
    /\ t_used' = [t_used EXCEPT ![t] =
                     [weights |-> weights_of(t), preferences |-> preferences_of(t)]]
    /\ t_pc' = [t_pc EXCEPT ![t] = "done"]
    /\ UNCHANGED <<t_data, t_refs, t_own, overridden>>
    /\ UNCHANGED hsiVars
    /\ UNCHANGED normVars

\* The handler returns and its locals are gone.
T_Return(t) ==
    /\ t_pc[t] = "done"
    /\ t_pc' = [t_pc EXCEPT ![t] = "idle"]
    /\ t_data' = [t_data EXCEPT ![t] = None]
    /\ t_refs' = [t_refs EXCEPT ![t] = None]
    /\ t_own' = [t_own EXCEPT ![t] = None]
    /\ t_used' = [t_used EXCEPT ![t] = None]
    /\ UNCHANGED overridden
    /\ UNCHANGED hsiVars
    /\ UNCHANGED normVars

NextThreads ==
    \E t \in Threads :
        \/ T_Receive(t)
        \/ T_CheckSharkType(t)
        \/ T_OverrideWeights(t)
        \/ T_OverridePreferences(t)
        \/ T_Score(t)
        \/ T_Return(t)

SpecThreads == Init /\ [][NextThreads]_vars

(***************************************************************************)
(* Claim about the species template, checked under SpecThreads.            *)
(***************************************************************************)
NoOverrides(d) == DOMAIN d.weights = {} /\ DOMAIN d.preferences \cap Vars4 = {}

ScoredDefaults(t) ==
    t_used[t] = [weights |-> SharkModelsTable[shark_type_of(t_data[t])].weights,
                 preferences |-> SharkModelsTable[shark_type_of(t_data[t])].preferences]

\* C11: after any sequence or interleaving of requests with weight and
\* preference overrides SHARK_MODELS equals its initial value, and a request
\* without overrides is scored with the species' default weights and
\* descriptors.
TemplateUnchanged ==
    /\ SHARK_MODELS = SharkModelsTable
    /\ \A t \in Threads :
          (~IsNone(t_used[t]) /\ NoOverrides(t_data[t])) => ScoredDefaults(t)

\* C11 witness: a request without overrides has been scored for a species for
\* which overrides were applied before, while another thread is serving a
\* request for the same species that has overridden a weight and a descriptor.
TemplateUnchangedWitness ==
    \E t \in Threads, u \in Threads :
        /\ t # u
        /\ t_pc[t] = "done" /\ ~IsNone(t_used[t])
        /\ NoOverrides(t_data[t])
        /\ shark_type_of(t_data[t]) \in overridden
        /\ t_pc[u] = "score"
        /\ shark_type_of(t_data[u]) = shark_type_of(t_data[t])
        /\ DOMAIN t_data[u].weights # {}
        /\ "SST" \in DOMAIN t_data[u].preferences
        /\ weights_of(u) # SharkModelsTable[shark_type_of(t_data[u])].weights
        /\ preferences_of(u) # SharkModelsTable[shark_type_of(t_data[u])].preferences
        /\ ScoredDefaults(t)


(***************************************************************************)
(* The symmetry law of vectorized_normalize_preference, checked under      *)
(* SpecNorm.                                                               *)
(***************************************************************************)
\* The descriptor of the other orientation with the bounds mirrored about 0:
\* optimal (-hi, -lo) and tolerance (-hi, -lo).
Mirrored(p) ==
    [optimal |-> <<-p.optimal[2], -p.optimal[1]>>,
     tolerance |-> <<-p.tolerance[2], -p.tolerance[1]>>,
     is_low_temp_opt |-> ~p.is_low_temp_opt]

\* C12: the reversed descriptor with mirrored bounds, evaluated on -v, gives
\* the same suitability as the non-reversed descriptor with the original
\* bounds evaluated on v (and so the other way round), for every value and all
\* bounds.
NormMirrorSymmetry ==
    n_pc = "done" =>
        n_out = vectorized_normalize_preference(FNeg(n_val), Mirrored(n_prefs))

\* C12 witness: the reversed SST descriptor of the Greenland Shark applied to a
\* value on a ramp, where the suitability is strictly between 0 and 1.
NormMirrorWitness ==
    /\ n_pc = "done"
    /\ n_prefs = ScalePref(SharkModelsTable["Greenland Shark"].preferences["SST"], Resolution)
    /\ n_prefs.is_low_temp_opt
    /\ FLt(Zero, n_out) /\ FLt(n_out, One)
    /\ n_out = vectorized_normalize_preference(FNeg(n_val), Mirrored(n_prefs))

====
